---- MODULE Spec2Model ----
(***************************************************************************)
(* Model of src-build/downloadNodeBinary.js: the retrying download of the  *)
(* Node.js release asset (downloadNodeBinary), the bounded extraction of   *)
(* the archive (unzipFile, untarFile) and the staging of the executable    *)
(* (copyLatestNodeForBuild).                                               *)
(*                                                                         *)
(* Two specifications share the variables:                                 *)
(*   SpecExtract  one extraction, entry by entry, with the real ceilings;  *)
(*   Spec         the script run end to end (and run again), the archive   *)
(*                extracted by folding the same per-entry operators.       *)
(***************************************************************************)
EXTENDS Integers, Sequences, FiniteSets, TLC

VARIABLES
    \* ---- one extraction (unzipFile / untarFile), stepped per entry
    kind,        \* "zip" | "tar" | "none"
    nEntries,    \* number of entries of the archive (zipEntries.length)
    fileCount,   \* let fileCount
    totalSize,   \* let totalSize
    status,      \* "running", "ok" or the error thrown
    entry,       \* the entry examined last
    wrote,       \* TRUE iff the entry examined last was handed to the writer
    passed,      \* number of entries that passed every check
    passedSize,  \* the sum of their sizes
    gotData,     \* TRUE iff zipEntry.getData() ran for the entry examined last
    seen,        \* entries handed to the loop body / the filter so far
    seenSize,    \* the sum of their sizes
    \* ---- the script: downloadNodeBinary, then copyLatestNodeForBuild
    pc,          \* position of the script ("off" while only extracting)
    run,         \* 1 for the first launch of the script, 2 for the next, ...
    platform,    \* platformDetails.platform
    arch,        \* platformDetails.arch
    retries0,    \* maxRetries as passed by the caller
    maxRetries,  \* maxRetries of the call in progress
    metadata,    \* releaseResponse.data.assets of the latest response
    asset,       \* asset.name of the attempt in progress
    files,       \* the files of __dirname, by asset name
    nMeta,       \* requests sent to the release endpoint, this run
    nDl,         \* requests sent to browser_download_url, this run
    log,         \* the failures of the attempts of this run, in order
    result,      \* how the promise of downloadNodeBinary settled
    fileName,    \* the name it resolved to
    prevFetched, \* the name the previous run's download resolved to
    extractedDir,\* the folders the archives unpack to, by asset name
    nodeDir,     \* the folder __dirname/node
    leftover,    \* the folder __dirname/node as this launch found it
    renamed,     \* outcome of fs.renameSync
    staged,      \* the sidecar binary in src-tauri
    copied,      \* outcome of fs.copyFileSync
    exit         \* how the process ended

xvars == <<kind, nEntries, fileCount, totalSize, status, entry, wrote, passed,
           passedSize, gotData, seen, seenSize>>

pvars == <<pc, run, platform, arch, retries0, maxRetries, metadata, asset,
           files, nMeta, nDl, log, result, fileName, prevFetched,
           extractedDir, nodeDir, leftover, renamed, staged, copied, exit>>

vars == <<xvars, pvars>>

(***************************************************************************)
(* Extraction limits                                                       *)
(***************************************************************************)
MAX_FILES == 10000
MAX_SIZE == 1000000000
THRESHOLD_RATIO == 50

\* The errors of the extractors, under the names of the error taxonomy:
\*   'Reached max. number of files'    TooManyEntries
\*   'Reached max. size'               ArchiveTooLarge
\*   'Reached max. compression ratio'  SuspiciousCompressionRatio
Aborts == {"TooManyEntries", "ArchiveTooLarge", "SuspiciousCompressionRatio"}

\* Number of entries an archive may have beyond MAX_FILES.
MaxExtra == 1

ArchiveLens == {2} \cup (MAX_FILES .. (MAX_FILES + MaxExtra))

NoEntry == [isDirectory |-> FALSE, size |-> 0, compressedSize |-> 0, none |-> TRUE]

Ent(d, s, c) == [isDirectory |-> d, size |-> s, compressedSize |-> c, none |-> FALSE]

\* Entries an archive is made of: size is the length of the entry's data
\* (zipEntry.getData().length, entry.size), compressedSize the header field.
EntryKinds ==
    { Ent(TRUE, 0, 0),                     \* a directory
      Ent(FALSE, 0, 0),                    \* an empty file, stored
      Ent(FALSE, 500000000, 10000000),     \* ratio exactly 50
      Ent(FALSE, 500000000, 9999999),      \* ratio just above 50
      Ent(FALSE, 10000, 1),                \* ratio 10000
      Ent(FALSE, 1000000000, 1000000000) } \* MAX_SIZE in one entry

\* Entries of a tar stream: size is the size the header declares
\* (entry.size); a tar header carries no compressed size.
TarEntryKinds ==
    { Ent(TRUE, 0, 0),
      Ent(FALSE, 0, 0),
      Ent(FALSE, 500000000, 0),
      Ent(FALSE, 1000000000, 0) }

\* Mutant: the ratio test with >= for >.
compressionRatioAtLeast(entrySize, compressedSize) ==
    IF compressedSize = 0
    THEN entrySize > 0
    ELSE entrySize \div compressedSize >= THRESHOLD_RATIO

\* entrySize / compressedSize > THRESHOLD_RATIO on JavaScript numbers:
\* x/0 is Infinity for x > 0 and 0/0 is NaN, which compares false.
compressionRatioExceeds(entrySize, compressedSize) ==
    IF compressedSize = 0
    THEN entrySize > 0
    ELSE \/ entrySize \div compressedSize > THRESHOLD_RATIO
         \/ /\ entrySize \div compressedSize = THRESHOLD_RATIO
            /\ entrySize % compressedSize > 0

\* Mutant: the entry-count test with >= for >.
zipFilesAtLeast(fileCount1) == fileCount1 >= MAX_FILES

\* Mutant: the cumulative-size test with >= for >.
tarSizeAtLeast(totalSize1) == totalSize1 >= MAX_SIZE

\* if (fileCount > MAX_FILES), in unzipFile.
zipTooManyFiles(fileCount1) == fileCount1 > MAX_FILES

\* Mutant: no ceiling on the cumulative size.
zipNeverTooLarge(totalSize1) == FALSE

\* if (totalSize > MAX_SIZE), in unzipFile.
zipTooLarge(totalSize1) == totalSize1 > MAX_SIZE

\* if (fileCount > MAX_FILES), in the filter of untarFile.
tarTooManyFiles(fileCount1) == fileCount1 > MAX_FILES

\* if (totalSize > MAX_SIZE), in the filter of untarFile.
tarTooLarge(totalSize1) == totalSize1 > MAX_SIZE

\* Mutant: the ratio check ahead of the cumulative-size check.
unzipEntryRatioFirst(fc, ts, e) ==
    LET fileCount1 == fc + 1
        entrySize == e.size
        totalSize1 == ts + entrySize
    IN  IF zipTooManyFiles(fileCount1)
        THEN [fileCount |-> fileCount1, totalSize |-> ts,
              err |-> "TooManyEntries", wrote |-> FALSE, gotData |-> FALSE]
        ELSE IF compressionRatioExceeds(entrySize, e.compressedSize)
        THEN [fileCount |-> fileCount1, totalSize |-> totalSize1,
              err |-> "SuspiciousCompressionRatio", wrote |-> FALSE,
              gotData |-> TRUE]
        ELSE IF zipTooLarge(totalSize1)
        THEN [fileCount |-> fileCount1, totalSize |-> totalSize1,
              err |-> "ArchiveTooLarge", wrote |-> FALSE, gotData |-> TRUE]
        ELSE [fileCount |-> fileCount1, totalSize |-> totalSize1,
              err |-> "none", wrote |-> ~e.isDirectory, gotData |-> TRUE]

\* The body of zipEntries.forEach for one entry e, from counters fc and ts:
\* the new counters, the error thrown ("none" if none), whether the entry
\* was extracted and whether its data was decompressed (zipEntry.getData()
\* runs after the count check and before the size and ratio checks).
\* totalSize is assigned before the size check throws.
unzipEntry(fc, ts, e) ==
    LET fileCount1 == fc + 1
        entrySize == e.size
        totalSize1 == ts + entrySize
    IN  IF zipTooManyFiles(fileCount1)
        THEN [fileCount |-> fileCount1, totalSize |-> ts,
              err |-> "TooManyEntries", wrote |-> FALSE, gotData |-> FALSE]
        ELSE IF zipTooLarge(totalSize1)
        THEN [fileCount |-> fileCount1, totalSize |-> totalSize1,
              err |-> "ArchiveTooLarge", wrote |-> FALSE, gotData |-> TRUE]
        ELSE IF compressionRatioExceeds(entrySize, e.compressedSize)
        THEN [fileCount |-> fileCount1, totalSize |-> totalSize1,
              err |-> "SuspiciousCompressionRatio", wrote |-> FALSE,
              gotData |-> TRUE]
        ELSE [fileCount |-> fileCount1, totalSize |-> totalSize1,
              err |-> "none", wrote |-> ~e.isDirectory, gotData |-> TRUE]

\* The filter callback of tar.x for one entry e: a throw aborts the
\* extraction, a return of true lets the entry be written.
untarFilter(fc, ts, e) ==
    LET fileCount1 == fc + 1
        totalSize1 == ts + e.size
    IN  IF tarTooManyFiles(fileCount1)
        THEN [fileCount |-> fileCount1, totalSize |-> ts,
              err |-> "TooManyEntries", wrote |-> FALSE, gotData |-> FALSE]
        ELSE IF tarTooLarge(totalSize1)
        THEN [fileCount |-> fileCount1, totalSize |-> totalSize1,
              err |-> "ArchiveTooLarge", wrote |-> FALSE, gotData |-> FALSE]
        ELSE [fileCount |-> fileCount1, totalSize |-> totalSize1,
              err |-> "none", wrote |-> TRUE, gotData |-> FALSE]

(***************************************************************************)
(* Release assets and the asset pattern                                    *)
(***************************************************************************)
\* Asset names are sequences of characters.
NODE_V == <<"n", "o", "d", "e", "-", "v">>
V20_1 == <<"2", "0", ".", "1", ".", "0">>
V20_2 == <<"2", "0", ".", "2", ".", "0">>
Dash == <<"-">>
Dot == <<".">>

Chars ==
    [win |-> <<"w", "i", "n">>,
     linux |-> <<"l", "i", "n", "u", "x">>,
     freebsd |-> <<"f", "r", "e", "e", "b", "s", "d">>,
     x64 |-> <<"x", "6", "4">>,
     arm64 |-> <<"a", "r", "m", "6", "4">>,
     zip |-> <<"z", "i", "p">>,
     targz |-> <<"t", "a", "r", ".", "g", "z">>]

LinuxX64_1 == NODE_V \o V20_1 \o Dash \o Chars.linux \o Dash \o Chars.x64 \o Dot \o Chars.targz
LinuxX64_2 == NODE_V \o V20_2 \o Dash \o Chars.linux \o Dash \o Chars.x64 \o Dot \o Chars.targz
LinuxArm64 == NODE_V \o V20_1 \o Dash \o Chars.linux \o Dash \o Chars.arm64 \o Dot \o Chars.targz
WinX64 == NODE_V \o V20_1 \o Dash \o Chars.win \o Dash \o Chars.x64 \o Dot \o Chars.zip

AssetNames == {LinuxX64_1, LinuxX64_2, LinuxArm64, WinX64}

NoName == <<>>

\* The asset lists the release endpoint may answer with.
NoMetadata == <<NoName>>

Fixtures ==
    { <<>>,
      <<LinuxArm64, LinuxX64_1, WinX64>>,
      <<LinuxX64_2, LinuxX64_1, LinuxArm64>> }

\* platformDetails as parsed from the command-line argument,
\* JSON.parse(args[0]): any pair of strings; "freebsd" is a platform the
\* build does not know.
PlatformSpecs == {<<"win", "x64">>, <<"linux", "x64">>, <<"freebsd", "x64">>}

\* const extension = platform === 'win' ? 'zip' : 'tar.gz'
extension(p) == IF p = "win" THEN Chars.zip ELSE Chars.targz

DigitOrDot == {"0", "1", "2", "3", "4", "5", "6", "7", "8", "9", "."}

\* A string interpolated into the pattern is pattern text: its "." matches
\* any character.
Interpolated(cs) == [i \in DOMAIN cs |-> IF cs[i] = "." THEN "ANY" ELSE cs[i]]

\* What follows [\d.]+ in the pattern: -${platform}-${arch}\.${extension}
PatternTail(p, a) ==
    Dash \o Interpolated(Chars[p]) \o Dash \o Interpolated(Chars[a])
         \o Dot \o Interpolated(extension(p))

TokenMatches(tok, ch) == tok = "ANY" \/ tok = ch

\* regex.test(a.name) for new RegExp(`node-v[\\d.]+-${platform}-${arch}\\.${extension}`):
\* the pattern is not anchored, so it may match anywhere in the name.
regexTest(p, a, name) ==
    LET tail == PatternTail(p, a)
    IN  \E s \in 1 .. Len(name) :
          /\ s + Len(NODE_V) - 1 <= Len(name)
          /\ \A i \in 1 .. Len(NODE_V) : name[s + i - 1] = NODE_V[i]
          /\ \E r \in 1 .. Len(name) :
               LET t == s + Len(NODE_V) + r
               IN  /\ t + Len(tail) - 1 <= Len(name)
                   /\ \A i \in 1 .. r : name[s + Len(NODE_V) + i - 1] \in DigitOrDot
                   /\ \A i \in 1 .. Len(tail) : TokenMatches(tail[i], name[t + i - 1])

\* Mutant: the first asset of the list, whatever its name.
firstAsset(p, a, assets) == IF assets = <<>> THEN NoName ELSE assets[1]

\* releaseResponse.data.assets.find(a => regex.test(a.name)): the first
\* asset whose name matches, NoName for undefined.
findAsset(p, a, assets) ==
    LET hits == {i \in 1 .. Len(assets) : regexTest(p, a, assets[i])}
    IN  IF hits = {} THEN NoName
        ELSE assets[CHOOSE i \in hits : \A j \in hits : i <= j]

\* The asset selected from each asset list the endpoint may answer with,
\* for each platform and architecture.
Selected ==
    [ps \in PlatformSpecs |-> [m \in Fixtures |-> findAsset(ps[1], ps[2], m)]]

\* Mutant: the check for an earlier download always answers no.
neverExists(fs, name) == FALSE

\* fs.existsSync(outputPath)
existsSync(fs, name) == fs[name] # "absent"

DEFAULT_MAX_RETRIES == 3

\* Launches of the script.
MaxRuns == 2

ScriptOff ==
    /\ pc = "off"
    /\ run = 0
    /\ platform = "none"
    /\ arch = "none"
    /\ retries0 = 0
    /\ maxRetries = 0
    /\ metadata = NoMetadata
    /\ asset = NoName
    /\ files = [n \in AssetNames |-> "absent"]
    /\ nMeta = 0
    /\ nDl = 0
    /\ log = <<>>
    /\ result = "pending"
    /\ fileName = NoName
    /\ prevFetched = NoName
    /\ extractedDir = [n \in AssetNames |-> "absent"]
    /\ nodeDir = "absent"
    /\ leftover = "absent"
    /\ renamed = "no"
    /\ staged = "none"
    /\ copied = "no"
    /\ exit = "none"

InitX ==
    /\ kind \in {"zip", "tar"}
    /\ nEntries \in ArchiveLens
    /\ fileCount = 0
    /\ totalSize = 0
    /\ status = "running"
    /\ entry = NoEntry
    /\ wrote = FALSE
    /\ passed = 0
    /\ passedSize = 0
    /\ gotData = FALSE
    /\ seen = 0
    /\ seenSize = 0
    /\ ScriptOff

ApplyEntry(r, e) ==
    /\ fileCount' = r.fileCount
    /\ totalSize' = r.totalSize
    /\ status' = IF r.err = "none" THEN "running" ELSE r.err
    /\ wrote' = r.wrote
    /\ passed' = IF r.err = "none" THEN passed + 1 ELSE passed
    /\ passedSize' = IF r.err = "none" THEN passedSize + e.size ELSE passedSize
    /\ entry' = e
    /\ gotData' = r.gotData
    /\ seen' = seen + 1
    /\ seenSize' = seenSize + e.size
    /\ UNCHANGED <<kind, nEntries>>
    /\ UNCHANGED pvars

\* unzipFile: the next entry of zipEntries.forEach.
ZipEntry ==
    /\ kind = "zip"
    /\ status = "running"
    /\ fileCount < nEntries
    /\ \E e \in EntryKinds : ApplyEntry(unzipEntry(fileCount, totalSize, e), e)

\* unzipFile: forEach has visited every entry and the function returns.
ZipDone ==
    /\ kind = "zip"
    /\ status = "running"
    /\ fileCount = nEntries
    /\ status' = "ok"
    /\ UNCHANGED <<kind, nEntries, fileCount, totalSize, entry, wrote, passed,
                   passedSize, gotData, seen, seenSize>>
    /\ UNCHANGED pvars

\* untarFile: tar.x calls the filter for the next entry of the stream.
TarEntry ==
    /\ kind = "tar"
    /\ status = "running"
    /\ fileCount < nEntries
    /\ \E e \in TarEntryKinds : ApplyEntry(untarFilter(fileCount, totalSize, e), e)

\* untarFile: tar.x resolves, 'Extraction complete'.
TarDone ==
    /\ kind = "tar"
    /\ status = "running"
    /\ fileCount = nEntries
    /\ status' = "ok"
    /\ UNCHANGED <<kind, nEntries, fileCount, totalSize, entry, wrote, passed,
                   passedSize, gotData, seen, seenSize>>
    /\ UNCHANGED pvars

NextX == ZipEntry \/ ZipDone \/ TarEntry \/ TarDone

SpecExtract == InitX /\ [][NextX]_vars

(***************************************************************************)
(* The script: downloadNodeBinary, then copyLatestNodeForBuild             *)
(***************************************************************************)
\* The archive a completely downloaded asset may hold.
ZipArchives ==
    { <<Ent(TRUE, 0, 0), Ent(FALSE, 500000000, 10000000)>>,
      <<Ent(TRUE, 0, 0), Ent(FALSE, 10000, 1)>>,
      <<Ent(FALSE, 1000000000, 1000000000), Ent(FALSE, 500000000, 10000000)>> }

TarArchives ==
    { <<Ent(TRUE, 0, 0), Ent(FALSE, 500000000, 0)>>,
      <<Ent(FALSE, 1000000000, 0), Ent(FALSE, 500000000, 0)>> }

\* unzipFile / untarFile over the entries of archive a, from entry
\* st.fileCount + 1 on, until an entry throws or the entries end.
RECURSIVE extractFrom(_, _, _)
extractFrom(k, a, st) ==
    IF st.err # "none" \/ st.fileCount = Len(a)
    THEN st
    ELSE LET e == a[st.fileCount + 1]
             r == IF k = "zip"
                  THEN unzipEntry(st.fileCount, st.totalSize, e)
                  ELSE untarFilter(st.fileCount, st.totalSize, e)
         IN  extractFrom(k, a,
                 [fileCount |-> r.fileCount, totalSize |-> r.totalSize,
                  err |-> r.err, wrote |-> r.wrote, entry |-> e,
                  passed |-> IF r.err = "none" THEN st.passed + 1 ELSE st.passed,
                  passedSize |-> IF r.err = "none" THEN st.passedSize + e.size
                                 ELSE st.passedSize,
                  gotData |-> r.gotData, seen |-> st.seen + 1,
                  seenSize |-> st.seenSize + e.size])

extract(k, a) ==
    extractFrom(k, a, [fileCount |-> 0, totalSize |-> 0, err |-> "none",
                       wrote |-> FALSE, entry |-> NoEntry, passed |-> 0,
                       passedSize |-> 0,
                       gotData |-> FALSE, seen |-> 0, seenSize |-> 0])

ExtractIdle ==
    /\ kind = "none"
    /\ nEntries = 0
    /\ fileCount = 0
    /\ totalSize = 0
    /\ status = "idle"
    /\ entry = NoEntry
    /\ wrote = FALSE
    /\ passed = 0
    /\ passedSize = 0
    /\ gotData = FALSE
    /\ seen = 0
    /\ seenSize = 0

\* The script is launched: args parsed, copyLatestNodeForBuild not yet
\* called. The directory holds no download and nothing is staged.
Init ==
    /\ ExtractIdle
    /\ pc = "start"
    /\ run = 1
    /\ \E ps \in PlatformSpecs : platform = ps[1] /\ arch = ps[2]
    /\ retries0 \in 0 .. DEFAULT_MAX_RETRIES
    /\ maxRetries = retries0
    /\ metadata = NoMetadata
    /\ asset = NoName
    /\ files = [n \in AssetNames |-> "absent"]
    /\ nMeta = 0
    /\ nDl = 0
    /\ log = <<>>
    /\ result = "pending"
    /\ fileName = NoName
    /\ prevFetched = NoName
    /\ extractedDir = [n \in AssetNames |-> "absent"]
    /\ nodeDir = "absent"
    /\ leftover = "absent"
    /\ renamed = "no"
    /\ staged = "none"
    /\ copied = "no"
    /\ exit = "none"

\* The catch block of downloadNodeBinary on failure f: with retries left
\* the function calls itself, which sends the metadata request of the next
\* attempt; with none left it throws 'Max retries reached, download failed.',
\* which copyLatestNodeForBuild does not catch.
Catch(f) ==
    /\ log' = Append(log, f)
    /\ asset' = NoName
    /\ IF maxRetries > 0
       THEN /\ maxRetries' = maxRetries - 1
            /\ nMeta' = nMeta + 1
            /\ pc' = "meta"
            /\ UNCHANGED <<result, exit>>
       ELSE /\ result' = "DownloadExhausted"
            /\ exit' = "uncaught"
            /\ pc' = "end"
            /\ UNCHANGED <<maxRetries, nMeta>>

\* copyLatestNodeForBuild calls downloadNodeBinary(platform, arch), which
\* sends the metadata request.
CallDownload ==
    /\ pc = "start"
    /\ pc' = "meta"
    /\ nMeta' = nMeta + 1
    /\ UNCHANGED <<run, platform, arch, retries0, maxRetries, metadata, asset,
                   files, nDl, log, result, fileName, prevFetched,
                   extractedDir, nodeDir, renamed, staged, copied, leftover, exit>>
    /\ UNCHANGED xvars

\* axios.get(url) rejects (network error, non-2xx status) or the document
\* has no assets list (TypeError on .assets.find).
MetaFail ==
    /\ pc = "meta"
    /\ \E f \in {"meta404", "metaError", "metaMalformed"} : Catch(f)
    /\ metadata' = NoMetadata
    /\ UNCHANGED <<run, platform, arch, retries0, files, nDl, fileName,
                   prevFetched, extractedDir, nodeDir, renamed, staged, copied, leftover>>
    /\ UNCHANGED xvars

\* The metadata arrives and no asset name matches: 'No asset found' is
\* thrown inside the try block.
MetaNoAsset ==
    /\ pc = "meta"
    /\ \E m \in Fixtures :
         /\ Selected[<<platform, arch>>][m] = NoName
         /\ metadata' = m
    /\ Catch("noAsset")
    /\ UNCHANGED <<run, platform, arch, retries0, files, nDl, fileName,
                   prevFetched, extractedDir, nodeDir, renamed, staged, copied, leftover>>
    /\ UNCHANGED xvars

\* The metadata arrives, an asset is found and its file exists: 'File
\* already downloaded', return asset.name.
MetaExists ==
    /\ pc = "meta"
    /\ \E m \in Fixtures :
         LET a == Selected[<<platform, arch>>][m]
         IN  /\ a # NoName
             /\ existsSync(files, a)
             /\ metadata' = m
             /\ asset' = a
             /\ fileName' = a
    /\ result' = "ok"
    /\ pc' = "fetched"
    /\ UNCHANGED <<run, platform, arch, retries0, maxRetries, files, nMeta,
                   nDl, log, prevFetched, extractedDir, nodeDir, renamed,
                   staged, copied, leftover, exit>>
    /\ UNCHANGED xvars

\* The metadata arrives, an asset is found and its file does not exist:
\* fs.createWriteStream(outputPath), then the download request is sent.
MetaDownload ==
    /\ pc = "meta"
    /\ \E m \in Fixtures :
         LET a == Selected[<<platform, arch>>][m]
         IN  /\ a # NoName
             /\ ~existsSync(files, a)
             /\ metadata' = m
             /\ asset' = a
    /\ nDl' = nDl + 1
    /\ pc' = "open"
    /\ UNCHANGED <<run, platform, arch, retries0, maxRetries, files, nMeta,
                   log, result, fileName, prevFetched, extractedDir, nodeDir,
                   renamed, staged, copied, leftover, exit>>
    /\ UNCHANGED xvars

\* The write stream opens its file (flags 'w'): the file now exists, empty.
\* The open is local and is taken to finish while the request is in flight.
WriterOpen ==
    /\ pc = "open"
    /\ files' = [files EXCEPT ![asset] = "empty"]
    /\ pc' = "request"
    /\ UNCHANGED <<run, platform, arch, retries0, maxRetries, metadata, asset,
                   nMeta, nDl, log, result, fileName, prevFetched,
                   extractedDir, nodeDir, renamed, staged, copied, leftover, exit>>
    /\ UNCHANGED xvars

\* The write stream fails to open its file: it emits 'error' before any
\* listener is attached (writer.on('error') runs after the await), which
\* ends the process.
WriterOpenError ==
    /\ pc = "open"
    /\ log' = Append(log, "openError")
    /\ result' = "Uncaught"
    /\ exit' = "uncaught"
    /\ pc' = "end"
    /\ UNCHANGED <<run, platform, arch, retries0, maxRetries, metadata, asset,
                   files, nMeta, nDl, fileName, prevFetched,
                   extractedDir, nodeDir, renamed, staged, copied, leftover>>
    /\ UNCHANGED xvars

\* The download request rejects (network error, timeout, non-2xx status):
\* caught; the file the writer created stays.
DownloadFail ==
    /\ pc = "request"
    /\ \E f \in {"dl404", "dlError"} : Catch(f)
    /\ UNCHANGED <<run, platform, arch, retries0, metadata, files, nDl,
                   fileName, prevFetched, extractedDir, nodeDir, renamed,
                   staged, copied, leftover>>
    /\ UNCHANGED xvars

\* The download request resolves with the body as a stream: data.pipe(writer),
\* and the promise with the 'finish' and 'error' listeners is returned.
DownloadResponse ==
    /\ pc = "request"
    /\ pc' = "stream"
    /\ files' = [files EXCEPT ![asset] = "partial"]
    /\ UNCHANGED <<run, platform, arch, retries0, maxRetries, metadata, asset,
                   nMeta, nDl, log, result, fileName, prevFetched,
                   extractedDir, nodeDir, renamed, staged, copied, leftover, exit>>
    /\ UNCHANGED xvars

\* writer 'finish': resolve(asset.name).
StreamFinish ==
    /\ pc = "stream"
    /\ files' = [files EXCEPT ![asset] = "complete"]
    /\ result' = "ok"
    /\ fileName' = asset
    /\ pc' = "fetched"
    /\ UNCHANGED <<run, platform, arch, retries0, maxRetries, metadata, asset,
                   nMeta, nDl, log, prevFetched, extractedDir, nodeDir,
                   renamed, staged, copied, leftover, exit>>
    /\ UNCHANGED xvars

\* writer 'error': fs.unlinkSync(outputPath); reject(err). The promise was
\* returned without await, so the rejection passes the catch block and
\* settles the promise of downloadNodeBinary.
StreamWriteError ==
    /\ pc = "stream"
    /\ files' = [files EXCEPT ![asset] = "absent"]
    /\ log' = Append(log, "writeError")
    /\ result' = "WriteError"
    /\ exit' = "uncaught"
    /\ pc' = "end"
    /\ UNCHANGED <<run, platform, arch, retries0, maxRetries, metadata, asset,
                   nMeta, nDl, fileName, prevFetched, extractedDir, nodeDir,
                   renamed, staged, copied, leftover>>
    /\ UNCHANGED xvars

\* The body stream fails (connection reset, timeout): pipe() does not
\* forward the error to the writer, which emits neither 'finish' nor
\* 'error'; the promise never settles and the process ends with the
\* top-level await pending.
StreamReadError ==
    /\ pc = "stream"
    /\ log' = Append(log, "readError")
    /\ result' = "Unsettled"
    /\ exit' = "unsettled"
    /\ pc' = "end"
    /\ UNCHANGED <<run, platform, arch, retries0, maxRetries, metadata, asset,
                   files, nMeta, nDl, fileName, prevFetched, extractedDir,
                   nodeDir, renamed, staged, copied, leftover>>
    /\ UNCHANGED xvars

ArchiveKind == IF platform = "win" THEN "zip" ELSE "tar"

\* Mutant: the catch block around the extraction logs the error and the
\* function goes on.
extractCatchGoesOn(err) == [pc |-> "extracted", exit |-> "none"]

\* catch (e) { console.error(e); process.exit(1); } around the extraction.
extractCatch(err) == [pc |-> "end", exit |-> "exit1"]

\* removeDir(fullPathOfNode) of utils.js: the folder and what it holds are
\* gone when the promise resolves.
removeDir(d) == "absent"

\* unzipFile / untarFile on a completely downloaded archive; an error is
\* caught, logged and followed by process.exit(1).
Extract ==
    /\ pc = "fetched"
    /\ files[fileName] = "complete"
    /\ \E a \in (IF platform = "win" THEN ZipArchives ELSE TarArchives) :
         LET r == extract(ArchiveKind, a)
         IN  /\ kind' = ArchiveKind
             /\ nEntries' = Len(a)
             /\ fileCount' = r.fileCount
             /\ totalSize' = r.totalSize
             /\ entry' = r.entry
             /\ wrote' = r.wrote
             /\ passed' = r.passed
             /\ passedSize' = r.passedSize
             /\ gotData' = r.gotData
             /\ seen' = r.seen
             /\ seenSize' = r.seenSize
             /\ status' = IF r.err = "none" THEN "ok" ELSE r.err
             /\ IF r.err = "none"
                THEN /\ extractedDir' = [extractedDir EXCEPT ![fileName] = "fresh"]
                     /\ pc' = "extracted"
                     /\ exit' = exit
                ELSE /\ extractedDir' =
                          [extractedDir EXCEPT
                              ![fileName] = IF r.passed > 0 THEN "partial" ELSE @]
                     /\ pc' = extractCatch(r.err).pc
                     /\ exit' = extractCatch(r.err).exit
    /\ UNCHANGED <<run, platform, arch, retries0, maxRetries, metadata, asset,
                   files, nMeta, nDl, log, result, fileName, prevFetched,
                   nodeDir, renamed, staged, copied, leftover>>

\* unzipFile / untarFile on a file that is empty or cut short: the archive
\* library rejects it (process.exit(1)), or, for an empty tar stream, finds
\* no entry and resolves.
ExtractIncomplete ==
    /\ pc = "fetched"
    /\ files[fileName] # "complete"
    /\ kind' = ArchiveKind
    /\ \E ok \in {b \in BOOLEAN : b => (ArchiveKind = "tar" /\ files[fileName] = "empty")} :
         IF ok
         THEN status' = "ok" /\ pc' = "extracted" /\ exit' = exit
         ELSE /\ status' = "BadArchive"
              /\ pc' = extractCatch("BadArchive").pc
              /\ exit' = extractCatch("BadArchive").exit
    /\ UNCHANGED <<nEntries, fileCount, totalSize, entry, wrote, passed,
                   passedSize, gotData, seen, seenSize>>
    /\ UNCHANGED <<run, platform, arch, retries0, maxRetries, metadata, asset,
                   files, nMeta, nDl, log, result, fileName, prevFetched,
                   extractedDir, nodeDir, renamed, staged, copied, leftover>>

\* Mutant: the rename is tried without removing the folder node first.
RenameWithoutRemove ==
    /\ pc = "extracted"
    /\ \E ok \in {b \in BOOLEAN :
                    b => (extractedDir[fileName] # "absent" /\ nodeDir = "absent")} :
         IF ok
         THEN /\ nodeDir' = extractedDir[fileName]
              /\ extractedDir' = [extractedDir EXCEPT ![fileName] = "absent"]
              /\ renamed' = "ok"
         ELSE /\ nodeDir' = nodeDir
              /\ extractedDir' = extractedDir
              /\ renamed' = "failed"
    /\ pc' = "copy"
    /\ UNCHANGED <<run, platform, arch, retries0, maxRetries, metadata, asset,
                   files, nMeta, nDl, log, result, fileName, prevFetched,
                   staged, copied, leftover, exit>>
    /\ UNCHANGED xvars

\* await removeDir(fullPathOfNode), then fs.renameSync of the folder the
\* archive unpacked to (the asset name less its extension) to it; a failure
\* of the rename (no such folder, or refused by the file system) is logged
\* and the function goes on.
Rename ==
    /\ pc = "extracted"
    /\ \E ok \in {b \in BOOLEAN :
                    b => (/\ extractedDir[fileName] # "absent"
                          /\ removeDir(nodeDir) = "absent")} :
         IF ok
         THEN /\ nodeDir' = extractedDir[fileName]
              /\ extractedDir' = [extractedDir EXCEPT ![fileName] = "absent"]
              /\ renamed' = "ok"
         ELSE /\ nodeDir' = removeDir(nodeDir)
              /\ extractedDir' = extractedDir
              /\ renamed' = "failed"
    /\ pc' = "copy"
    /\ UNCHANGED <<run, platform, arch, retries0, maxRetries, metadata, asset,
                   files, nMeta, nDl, log, result, fileName, prevFetched,
                   staged, copied, leftover, exit>>
    /\ UNCHANGED xvars

\* fs.copyFileSync(srcNode, tauriDestNode): on success the canonical folder
\* is removed and the function returns; on failure (no source, or refused
\* by the file system) new Error(err) is thrown, past the removeDir that
\* follows.
Copy ==
    /\ pc = "copy"
    /\ \E ok \in {b \in BOOLEAN : b => nodeDir \in {"fresh", "stale"}} :
         IF ok
         THEN /\ staged' = nodeDir
              /\ copied' = "ok"
              /\ nodeDir' = removeDir(nodeDir)
              /\ exit' = "ok"
         ELSE /\ staged' = staged
              /\ copied' = "failed"
              /\ nodeDir' = nodeDir
              /\ exit' = "uncaught"
    /\ pc' = "end"
    /\ UNCHANGED <<run, platform, arch, retries0, maxRetries, metadata, asset,
                   files, nMeta, nDl, log, result, fileName, prevFetched,
                   extractedDir, renamed, leftover>>
    /\ UNCHANGED xvars

Aged(d) == IF d = "fresh" THEN "stale" ELSE d

\* The script is launched again for the same platform: the file system is
\* what the earlier run left.
Relaunch ==
    /\ pc = "end"
    /\ run < MaxRuns
    /\ run' = run + 1
    /\ pc' = "start"
    /\ maxRetries' = retries0
    /\ metadata' = NoMetadata
    /\ asset' = NoName
    /\ nMeta' = 0
    /\ nDl' = 0
    /\ log' = <<>>
    /\ result' = "pending"
    /\ fileName' = NoName
    /\ prevFetched' = IF result = "ok" THEN fileName ELSE NoName
    /\ extractedDir' = [n \in AssetNames |-> Aged(extractedDir[n])]
    /\ nodeDir' = Aged(nodeDir)
    /\ leftover' = Aged(nodeDir)
    /\ staged' = Aged(staged)
    /\ renamed' = "no"
    /\ copied' = "no"
    /\ exit' = "none"
    /\ kind' = "none"
    /\ nEntries' = 0
    /\ fileCount' = 0
    /\ totalSize' = 0
    /\ status' = "idle"
    /\ entry' = NoEntry
    /\ wrote' = FALSE
    /\ passed' = 0
    /\ passedSize' = 0
    /\ gotData' = FALSE
    /\ seen' = 0
    /\ seenSize' = 0
    /\ UNCHANGED <<platform, arch, retries0, files>>

Next ==
    \/ CallDownload
    \/ MetaFail
    \/ MetaNoAsset
    \/ MetaExists
    \/ MetaDownload
    \/ WriterOpen
    \/ WriterOpenError
    \/ DownloadFail
    \/ DownloadResponse
    \/ StreamFinish
    \/ StreamWriteError
    \/ StreamReadError
    \/ Extract
    \/ ExtractIncomplete
    \/ Rename
    \/ Copy
    \/ Relaunch

Spec == Init /\ [][Next]_vars

(***************************************************************************)
(* Properties of the script, checked under Spec                            *)
(***************************************************************************)
Last(q) == q[Len(q)]

\* The indices of the assets of list m whose names match the pattern.
MatchingOf ==
    [ps \in PlatformSpecs |->
        [m \in Fixtures \cup {NoMetadata} |->
            {i \in DOMAIN m : regexTest(ps[1], ps[2], m[i])}]]

Matching(m) == MatchingOf[<<platform, arch>>][m]

\* The failures of an attempt the retry policy names: a failed or non-2xx
\* metadata request, a failed or non-2xx download request, a write error
\* while the body is streamed.
RetriedFailures ==
    {"meta404", "metaError", "metaMalformed", "noAsset", "dl404", "dlError", "writeError"}

\* C1 as stated: after a download that succeeded, the next invocation for
\* the same platform and destination sends no request at all.
C1_AsStated ==
    (run >= 2 /\ prevFetched # NoName) => nMeta + nDl = 0

\* C1 (amended): after a download that succeeded, the file it resolved to
\* stays in place, and an attempt of the next invocation whose metadata
\* resolves to that asset returns its name without sending a download
\* request; the metadata request of each attempt is still sent.
C1_SecondFetchSkipsDownload ==
    (run >= 2 /\ prevFetched # NoName) =>
        /\ files[prevFetched] # "absent"
        /\ pc # "start" => nMeta >= 1
        /\ asset = prevFetched =>
              /\ pc \notin {"open", "request", "stream"}
              /\ result = "ok"
              /\ fileName = prevFetched

C1_Witness ==
    /\ run = 2
    /\ prevFetched # NoName
    /\ files[prevFetched] = "complete"
    /\ pc = "fetched"
    /\ fileName = prevFetched
    /\ nMeta = 1
    /\ nDl = 0

\* C2 as stated: while fewer than maxRetries retries are used, a failure of
\* an attempt (metadata request, download request, write error while
\* streaming) starts a new attempt and does not reach the caller.
C2_AsStated ==
    (/\ Len(log) > 0
     /\ Len(log) <= retries0
     /\ Last(log) \in RetriedFailures)
        => result \in {"pending", "ok"}

\* C3 as stated: at most maxRetries + 1 attempts; maxRetries + 1 failed
\* attempts end the download with DownloadExhausted, not before, and then
\* nothing is staged.
C3_AsStated ==
    /\ retries0 - maxRetries + 1 <= retries0 + 1
    /\ Len(log) <= retries0 + 1
    /\ (/\ Len(log) = retries0 + 1
        /\ \A i \in 1 .. Len(log) : log[i] \in RetriedFailures)
          => result = "DownloadExhausted"
    /\ result = "DownloadExhausted" =>
          (Len(log) = retries0 + 1 /\ pc = "end" /\ staged # "fresh")

\* A fault of the run that is no failure of the download: an archive over
\* a ceiling, a rename or a copy the file system refuses.
OtherFault ==
    \/ status \in Aborts
    \/ renamed = "failed" /\ extractedDir[fileName] \in {"fresh", "stale"}
    \/ exit = "uncaught" /\ result = "ok" /\ nodeDir \in {"fresh", "stale"}

\* C4 as stated: with maxRetries = 3 and no file beforehand, a run whose
\* first two attempts get a 404 and whose third attempt succeeds sends
\* exactly 3 requests and ends with the binary staged.
C4_AsStated ==
    (/\ run = 1
     /\ retries0 = 3
     /\ pc = "end"
     /\ result = "ok"
     /\ Len(log) = 2
     /\ \A i \in 1 .. Len(log) : log[i] \in {"meta404", "dl404"}
     /\ ~OtherFault)
        => (nMeta + nDl = 3 /\ staged = "fresh" /\ exit = "ok")

\* C5 as stated: after an error while the body is streamed to the file
\* (write side or read side), the file is deleted and the error reaches
\* the caller.
C5_AsStated ==
    (Len(log) > 0 /\ Last(log) \in {"writeError", "readError"}) =>
        (files[asset] = "absent" /\ result \notin {"pending", "ok", "Unsettled"})

\* C6 as stated: an asset is selected only when exactly one asset name of
\* the metadata matches the pattern.
C6_AsStated ==
    asset # NoName => Cardinality(Matching(metadata)) = 1

\* C7 as stated: with exactly one matching asset that asset is selected;
\* with none the caller observes AssetNotFound.
C7_AsStated ==
    /\ (asset # NoName /\ Cardinality(Matching(metadata)) = 1) =>
          \A i \in Matching(metadata) : asset = metadata[i]
    /\ (metadata # NoMetadata /\ Matching(metadata) = {} /\ pc = "end") =>
          result = "AssetNotFound"

\* C7 (amended): with exactly one matching asset that asset is selected
\* (and no asset is ever selected whose name does not match); with none
\* the attempt fails with 'No asset found', which is caught like every
\* other failure of an attempt: a retry follows while retries remain, and
\* after the last one the caller observes DownloadExhausted, never
\* AssetNotFound.
C7_LocateOutcome ==
    /\ asset # NoName =>
          /\ \E i \in Matching(metadata) : asset = metadata[i]
          /\ Cardinality(Matching(metadata)) = 1 =>
                \A i \in Matching(metadata) : asset = metadata[i]
    /\ (metadata # NoMetadata /\ Matching(metadata) = {}) =>
          /\ asset = NoName
          /\ Len(log) > 0
          /\ Last(log) = "noAsset"
          /\ \/ pc = "meta" /\ result = "pending" /\ Len(log) <= retries0
             \/ /\ pc = "end"
                /\ result = "DownloadExhausted"
                /\ Len(log) = retries0 + 1

C7_Witness ==
    /\ platform = "win"
    /\ metadata = <<LinuxX64_2, LinuxX64_1, LinuxArm64>>
    /\ retries0 = DEFAULT_MAX_RETRIES
    /\ Len(log) = DEFAULT_MAX_RETRIES + 1
    /\ result = "DownloadExhausted"
    /\ pc = "end"

\* C11: a step in which the extraction aborts (TooManyEntries,
\* ArchiveTooLarge, SuspiciousCompressionRatio) ends the run with exit code
\* 1 and leaves the folder node, the outcome of the rename, the staged
\* binary and the outcome of the copy as they were; from then on the only
\* step is a new launch of the script: no second extraction, no rename, no
\* copy.
C11_ExtractorAbortEndsRun ==
    [][/\ (status' \in Aborts /\ status \notin Aborts) =>
             /\ pc' = "end"
             /\ exit' = "exit1"
             /\ renamed' = "no"
             /\ copied' = "no"
             /\ UNCHANGED <<nodeDir, staged, nMeta, nDl>>
       /\ status \in Aborts =>
             /\ run' = run + 1
             /\ status' = "idle"]_vars

\* An extraction aborted while a folder node of an earlier run was there:
\* the folder is still there.
C11_Witness ==
    /\ status \in Aborts
    /\ passed > 0
    /\ pc = "end"
    /\ exit = "exit1"
    /\ nodeDir = "stale"
    /\ renamed = "no"

\* C12 as stated: a run that renamed the unpacked folder to the folder node
\* does not end with the folder node still there, whether the copy of the
\* executable succeeded or failed.
C12_AsStated ==
    (pc = "end" /\ renamed = "ok" /\ copied # "no") => nodeDir = "absent"

\* C13 as stated: after a rename that failed the copy is not attempted; a
\* run whose rename or copy failed ends with an error reported, never with
\* success.
C13_AsStated ==
    /\ renamed = "failed" => copied = "no"
    /\ (renamed = "failed" \/ copied = "failed") => exit # "ok"
    /\ (pc = "end" /\ (renamed = "failed" \/ copied = "failed")) => exit = "uncaught"

\* The platforms and architectures the build recognizes.
RecognizedPlatforms == {"win", "mac", "linux"}

RecognizedArchs == {"x64", "arm64"}

\* C14 as stated: with a platform or an architecture outside the recognized
\* sets given on the command line, no request is sent to the release
\* endpoint or for a download, and the download is not what fails.
C14_AsStated ==
    (platform \notin RecognizedPlatforms \/ arch \notin RecognizedArchs) =>
        /\ nMeta = 0
        /\ nDl = 0
        /\ result = "pending"

\* C17 as stated: an attempt whose body stream fails or times out before
\* the body is complete counts as a failed attempt: a retry follows while
\* retries remain, DownloadExhausted after the last one; the promise of the
\* download does not stay pending forever.
C17_AsStated ==
    (Len(log) > 0 /\ Last(log) = "readError") =>
        /\ result # "Unsettled"
        /\ \/ pc = "meta" /\ result = "pending" /\ Len(log) <= retries0
           \/ result = "DownloadExhausted"

\* C18 as stated: when the download has resolved to a name, the file of
\* that name holds the complete body of the asset.
C18_AsStated ==
    result = "ok" => files[fileName] = "complete"

\* C20: the binary a run copies to src-tauri comes from the folder the
\* extraction of this run produced; a folder node left by an earlier run is
\* gone once the rename has been tried, whether the rename succeeded or
\* failed, and after a failed rename nothing is copied.
C20_StagedIsFresh ==
    /\ copied = "ok" => (staged = "fresh" /\ status = "ok" /\ renamed = "ok")
    /\ renamed # "no" => nodeDir \in {"absent", "fresh"}
    /\ renamed = "failed" => (nodeDir = "absent" /\ copied # "ok")

\* A launch that found a folder node left by an earlier run, and staged the
\* binary of the archive it extracted itself.
C20_Witness ==
    /\ run = 2
    /\ leftover = "stale"
    /\ renamed = "ok"
    /\ copied = "ok"
    /\ staged = "fresh"
    /\ nodeDir = "absent"

(***************************************************************************)
(* Properties of the extractors, checked under SpecExtract                 *)
(***************************************************************************)
\* The sum of the sizes of the entries examined so far (the count check
\* throws before the size of its entry is added to totalSize).
ExaminedSize ==
    totalSize + (IF status = "TooManyEntries" THEN entry.size ELSE 0)

\* C8 as stated: every zip archive with more than MAX_FILES entries ends in
\* TooManyEntries, nothing from entry MAX_FILES + 1 on is written, and an
\* archive of exactly MAX_FILES entries is not rejected on its entry count.
C8_AsStated ==
    kind = "zip" =>
        /\ (nEntries > MAX_FILES /\ status # "running") => status = "TooManyEntries"
        /\ wrote => fileCount <= MAX_FILES
        /\ nEntries = MAX_FILES => status # "TooManyEntries"

\* C8 (amended): a zip archive with more than MAX_FILES entries never
\* extracts to the end: it aborts with TooManyEntries at entry
\* MAX_FILES + 1, unless an earlier entry aborted it with ArchiveTooLarge or
\* SuspiciousCompressionRatio; no entry after the first MAX_FILES is
\* written; an archive of at most MAX_FILES entries never aborts with
\* TooManyEntries.
C8_ZipEntryCeiling ==
    kind = "zip" =>
        /\ (nEntries > MAX_FILES /\ status # "running") => status \in Aborts
        /\ fileCount > MAX_FILES =>
              /\ status = "TooManyEntries"
              /\ fileCount = MAX_FILES + 1
              /\ passed = MAX_FILES
        /\ status = "TooManyEntries" => (fileCount = MAX_FILES + 1 /\ ~wrote)
        /\ wrote => fileCount <= MAX_FILES
        /\ nEntries <= MAX_FILES => status # "TooManyEntries"

C8_Witness ==
    /\ kind = "zip"
    /\ nEntries = MAX_FILES + 1
    /\ fileCount = MAX_FILES + 1
    /\ status = "TooManyEntries"
    /\ ~entry.isDirectory

\* uncompressedSize / compressedSize > 50, for compressedSize > 0.
RatioAbove50(e) ==
    e.compressedSize > 0 /\ e.size > 0 /\ (e.size - 1) \div 50 >= e.compressedSize

\* uncompressedSize / compressedSize = 50.
RatioIs50(e) ==
    e.compressedSize > 0 /\ e.size % 50 = 0 /\ e.size \div 50 = e.compressedSize

\* C9: a zip file entry whose ratio is above 50, reached with the entry
\* count and the cumulative size within their limits, aborts the extraction
\* with SuspiciousCompressionRatio; neither it nor a later entry is written
\* (the offending entry is the last one examined); a ratio of exactly 50 is
\* accepted and the entry written.
C9_ZipRatioCeiling ==
    (kind = "zip" /\ ~entry.none) =>
        /\ (/\ ~entry.isDirectory
            /\ RatioAbove50(entry)
            /\ fileCount <= MAX_FILES
            /\ totalSize <= MAX_SIZE)
              => (status = "SuspiciousCompressionRatio" /\ ~wrote)
        /\ status = "SuspiciousCompressionRatio" =>
              (~wrote /\ ~RatioIs50(entry) /\ passed = fileCount - 1)
        /\ (/\ ~entry.isDirectory
            /\ RatioIs50(entry)
            /\ fileCount <= MAX_FILES
            /\ totalSize <= MAX_SIZE)
              => (status \in {"running", "ok"} /\ wrote)

C9_Witness ==
    /\ kind = "zip"
    /\ status = "SuspiciousCompressionRatio"
    /\ entry = Ent(FALSE, 10000, 1)
    /\ fileCount >= 2
    /\ totalSize = 500000000 + 10000

\* C10 as stated: a tar.gz extraction aborts with ArchiveTooLarge exactly at
\* the first entry that takes the sum of the declared sizes over MAX_SIZE;
\* every earlier entry was accepted, the crossing entry is not written, and
\* a sum of exactly MAX_SIZE does not abort.
C10_AsStated ==
    kind = "tar" =>
        /\ ExaminedSize > MAX_SIZE => status = "ArchiveTooLarge"
        /\ status = "ArchiveTooLarge" =>
              /\ totalSize - entry.size <= MAX_SIZE
              /\ passed = fileCount - 1
              /\ ~wrote
        /\ (ExaminedSize = MAX_SIZE /\ fileCount <= MAX_FILES) => status \in {"running", "ok"}

\* C10 (amended): when the entry that takes the sum of the declared sizes
\* over MAX_SIZE is among the first MAX_FILES entries, the tar.gz extraction
\* aborts with ArchiveTooLarge exactly at that entry: every earlier entry
\* was accepted, the crossing entry is not written and nothing is examined
\* after it, and a sum of exactly MAX_SIZE does not abort. (An entry
\* after the first MAX_FILES aborts with TooManyEntries instead, whatever
\* its size.)
C10_TarSizeCeiling ==
    kind = "tar" =>
        /\ (ExaminedSize > MAX_SIZE /\ fileCount <= MAX_FILES) => status = "ArchiveTooLarge"
        /\ status = "ArchiveTooLarge" =>
              /\ totalSize > MAX_SIZE
              /\ totalSize - entry.size <= MAX_SIZE
              /\ passed = fileCount - 1
              /\ ~wrote
        /\ status \in {"running", "ok"} => (totalSize <= MAX_SIZE /\ passed = fileCount)
        /\ (ExaminedSize = MAX_SIZE /\ fileCount <= MAX_FILES) => status \in {"running", "ok"}
        /\ fileCount > MAX_FILES => status = "TooManyEntries"

C10_Witness ==
    /\ kind = "tar"
    /\ status = "ArchiveTooLarge"
    /\ fileCount >= 3
    /\ totalSize - entry.size = MAX_SIZE
    /\ passed = fileCount - 1

\* C15 as stated: a zip entry among the first MAX_FILES whose ratio is above
\* 50 and which takes the cumulative size over MAX_SIZE aborts the
\* extraction with SuspiciousCompressionRatio.
C15_AsStated ==
    (/\ kind = "zip"
     /\ ~entry.none
     /\ seen <= MAX_FILES
     /\ RatioAbove50(entry)
     /\ seenSize > MAX_SIZE)
        => status = "SuspiciousCompressionRatio"

\* C15 (amended): for each zip entry the checks are applied in the order
\* entry count, then cumulative size, then compression ratio: an abort with
\* SuspiciousCompressionRatio has the entry within the count and the size
\* ceilings, an abort with ArchiveTooLarge has it within the count ceiling,
\* and an entry among the first MAX_FILES that violates both the ratio
\* ceiling and the total-size ceiling aborts with ArchiveTooLarge, not
\* SuspiciousCompressionRatio.
C15_ZipCheckOrder ==
    kind = "zip" =>
        /\ status = "SuspiciousCompressionRatio" =>
              (seen <= MAX_FILES /\ seenSize <= MAX_SIZE)
        /\ status = "ArchiveTooLarge" => seen <= MAX_FILES
        /\ seen > MAX_FILES => status = "TooManyEntries"
        /\ (/\ ~entry.none
            /\ seen <= MAX_FILES
            /\ RatioAbove50(entry)
            /\ seenSize > MAX_SIZE)
              => status = "ArchiveTooLarge"

C15_Witness ==
    /\ kind = "zip"
    /\ status = "ArchiveTooLarge"
    /\ seen = 2
    /\ entry = Ent(FALSE, 500000000, 9999999)
    /\ seenSize = MAX_SIZE + 500000000

\* C16 as stated: a zip entry that fails a check (count, cumulative size,
\* ratio) has not had its data decompressed.
C16_AsStated ==
    (kind = "zip" /\ status \in Aborts) => ~gotData

\* C19 as stated: at most MAX_FILES entries and at most MAX_SIZE bytes have
\* passed the checks; fileCount and totalSize equal the number and the size
\* sum of the entries examined so far, and never decrease.
C19_AsStated ==
    /\ [](/\ passed <= MAX_FILES
          /\ passedSize <= MAX_SIZE
          /\ fileCount = seen
          /\ totalSize = seenSize)
    /\ [][fileCount' >= fileCount /\ totalSize' >= totalSize]_vars

\* C19 (amended): in every state of an extraction (zip or tar.gz) at most
\* MAX_FILES entries and at most MAX_SIZE bytes have passed the checks;
\* fileCount and totalSize never decrease; fileCount always equals the
\* number of entries examined so far, and totalSize the sum of their sizes,
\* except after the abort with TooManyEntries, where the size of the entry
\* that exceeded the count has not been added.
C19_LimitInvariant ==
    /\ [](/\ passed <= MAX_FILES
          /\ passedSize <= MAX_SIZE
          /\ fileCount = seen
          /\ status # "TooManyEntries" => totalSize = seenSize
          /\ status = "TooManyEntries" => totalSize = seenSize - entry.size
          /\ status \in {"running", "ok"} =>
                (passed = fileCount /\ passedSize = totalSize)
          /\ status \in Aborts =>
                (passed = fileCount - 1 /\ passedSize = seenSize - entry.size))
    /\ [][fileCount' >= fileCount /\ totalSize' >= totalSize]_vars

C19_Witness ==
    /\ status = "TooManyEntries"
    /\ passed = MAX_FILES
    /\ passedSize = MAX_SIZE
    /\ entry.size > 0
    /\ totalSize < seenSize

====
